---- MODULE Spec2Model ----
(***************************************************************************)
(* Dynamic form builder: the schema-driven form (DynamicForm.tsx), the     *)
(* schema editor (SchemaEditor), the table of entries (EntriesTable) and   *)
(* the orchestrating shell (App.tsx).                                      *)
(*                                                                         *)
(* Representation.  A JavaScript string typed by the user is a sequence of *)
(* one-character strings, so that trim() and Number() are computed and not *)
(* assumed.  An optional attribute (min?: number, options?: string[]) is a *)
(* sequence of length at most one: <<>> is undefined, <<x>> is the value   *)
(* x.  An object used as a map (values, errors, data) is a function whose  *)
(* domain is the set of keys present.                                      *)
(***************************************************************************)
EXTENDS Integers, Sequences, FiniteSets, TLC

VARIABLES
    schemas,           \* App.tsx:20  useLocalStorage<FormSchema[]>
    entries,           \* App.tsx:21  useLocalStorage<FormEntry[]>
    selectedSchemaId,  \* App.tsx:22  useState<string | null>
    activeTab,         \* App.tsx:23  useState<ActiveTab>
    values,            \* DynamicForm.tsx:14  raw input, keyed by field id
    errors,            \* DynamicForm.tsx:15  ValidationErrorMap, keyed by field id
    search,            \* EntriesTable:21  useState('')
    page,              \* EntriesTable:22  useState(0)
    pageSize,          \* EntriesTable:23  useState(10)
    clock,             \* the value new Date().toISOString() returns now
    nextId             \* the next value generateId() returns

vars == <<schemas, entries, selectedSchemaId, activeTab, values, errors,
          search, page, pageSize, clock, nextId>>

\* the state of EntriesTable that decides the page shown
tableVars == <<search, page, pageSize>>

----------------------------------------------------------------------------
(* Bounds of the exploration *)

\* typing is explored while the form and the entries hold no more
\* characters of user input than this
MaxTotalLen == 2
\* number of fields of a schema
MaxFields == 2
\* a submission is explored while the store holds fewer entries than this
MaxEntries == 1
\* number of schemas, fields and entries created in a session
MaxIds == 3
\* the latest time the clock shows
MaxClock == 1
\* number of schemas in the collection
MaxSchemas == 3
\* number of entries the store holds when the table is opened
MaxRows == 11

\* the characters the user types: a blank, a letter, a digit
Chars == {" ", "a", "1"}

StringsUpTo(n) == UNION {[1..k -> Chars] : k \in 0..n}

\* the values an input can deliver to its onChange handler
RawStrings == StringsUpTo(MaxTotalLen)

----------------------------------------------------------------------------
(* Optional values and maps *)

None == <<>>
Some(x) == <<x>>

EmptyMap == <<>>

\* obj[key] = value on an object used as a map
Put(m, k, v) == [x \in (DOMAIN m) \cup {k} |-> IF x = k THEN v ELSE m[x]]

\* { ...obj, ...patch }
Merge(obj, patch) ==
    [k \in (DOMAIN obj) \cup (DOMAIN patch) |->
        IF k \in DOMAIN patch THEN patch[k] ELSE obj[k]]

SetMin(S) == CHOOSE x \in S : \A y \in S : x <= y

----------------------------------------------------------------------------
(* String.prototype.trim and Number(string), on the characters of Chars *)

IsWhiteSpace(c) == c = " "

RECURSIVE TrimStart(_)
TrimStart(s) ==
    IF s # <<>> /\ IsWhiteSpace(Head(s)) THEN TrimStart(Tail(s)) ELSE s

RECURSIVE TrimEnd(_)
TrimEnd(s) ==
    IF s # <<>> /\ IsWhiteSpace(s[Len(s)])
    THEN TrimEnd(SubSeq(s, 1, Len(s) - 1))
    ELSE s

trim(s) == TrimEnd(TrimStart(s))

IsDigit(c) == c \in {"0", "1", "2", "3", "4", "5", "6", "7", "8", "9"}

DigitValue(c) ==
    CASE c = "0" -> 0 [] c = "1" -> 1 [] c = "2" -> 2 [] c = "3" -> 3
      [] c = "4" -> 4 [] c = "5" -> 5 [] c = "6" -> 6 [] c = "7" -> 7
      [] c = "8" -> 8 [] c = "9" -> 9

RECURSIVE DecimalValue(_)
DecimalValue(s) ==
    IF s = <<>> THEN 0
    ELSE 10 * DecimalValue(SubSeq(s, 1, Len(s) - 1)) + DigitValue(s[Len(s)])

\* Number(s): white space is stripped, the empty string is 0, a string of
\* decimal digits is its value and anything else over Chars is NaN.
\* The result is [nan, val]; val is meaningful only when nan is FALSE.
Number(s) ==
    LET t == trim(s) IN
    IF t = <<>> THEN [nan |-> FALSE, val |-> 0]
    ELSE IF \A i \in 1..Len(t) : IsDigit(t[i])
         THEN [nan |-> FALSE, val |-> DecimalValue(t)]
         ELSE [nan |-> TRUE, val |-> 0]

----------------------------------------------------------------------------
(* new RegExp(pattern) and regex.test(s), for three patterns *)

PatLetters == "^a+$"   \* one or more letters, anchored
PatDigit   == "1"      \* contains the digit 1, unanchored
PatInvalid == "("      \* new RegExp throws SyntaxError

RegExpCompiles(p) == p # PatInvalid

RegExpTest(p, s) ==
    CASE p = PatLetters -> s # <<>> /\ \A i \in 1..Len(s) : s[i] = "a"
      [] p = PatDigit   -> \E i \in 1..Len(s) : s[i] = "1"

----------------------------------------------------------------------------
(* DynamicForm.tsx: validation *)

\* values[field.id] ?? ''
RawOf(vals, fieldId) == IF fieldId \in DOMAIN vals THEN vals[fieldId] ELSE <<>>

\* An error message: its fixed text and the number interpolated into it.
MsgRequired  == [text |-> "This field is required", arg |-> None]
MsgNotNumber == [text |-> "Must be a valid number", arg |-> None]
MsgMin(n)    == [text |-> "Must be >= ", arg |-> Some(n)]
MsgMax(n)    == [text |-> "Must be <= ", arg |-> Some(n)]
MsgPattern   == [text |-> "Value does not match required format", arg |-> None]

\* The outcome of the checks of one field: thrown is TRUE when an exception
\* leaves the loop body, error is the message stored in newErrors, if any.
Outcome(thrown, error) == [thrown |-> thrown, error |-> error]

\* field.pattern as a condition: defined and not the empty string
Truthy(pattern) == pattern # None /\ pattern[1] # ""

\* patternCheck without the try/catch: the SyntaxError leaves the loop
patternCheck_NoCatch(pattern, trimmed) ==
    IF RegExpCompiles(pattern)
    THEN IF ~RegExpTest(pattern, trimmed)
         THEN Outcome(FALSE, Some(MsgPattern))
         ELSE Outcome(FALSE, None)
    ELSE Outcome(TRUE, None)

\* the try/catch around new RegExp and regex.test
patternCheck(pattern, trimmed) ==
    IF RegExpCompiles(pattern)
    THEN IF ~RegExpTest(pattern, trimmed)
         THEN Outcome(FALSE, Some(MsgPattern))
         ELSE Outcome(FALSE, None)
    ELSE Outcome(FALSE, None)    \* catch: invalid regex; skip

\* numberCheck with the bounds tested for truth (field.max && ...), so
\* that a bound of 0 is no bound
numberCheck_TruthyBounds(field, trimmed) ==
    LET num == Number(trimmed) IN
    IF num.nan THEN Some(MsgNotNumber)
    ELSE IF field.min # None /\ field.min[1] # 0 /\ num.val < field.min[1]
         THEN Some(MsgMin(field.min[1]))
    ELSE IF field.max # None /\ field.max[1] # 0 /\ num.val > field.max[1]
         THEN Some(MsgMax(field.max[1]))
    ELSE None

\* the number branch of the loop body
numberCheck(field, trimmed) ==
    LET num == Number(trimmed) IN
    IF num.nan THEN Some(MsgNotNumber)
    ELSE IF field.min # None /\ num.val < field.min[1] THEN Some(MsgMin(field.min[1]))
    ELSE IF field.max # None /\ num.val > field.max[1] THEN Some(MsgMax(field.max[1]))
    ELSE None

\* validateField with the required check on the untrimmed value
validateField_RequiredUntrimmed(field, rawValue) ==
    LET trimmed == trim(rawValue) IN
    IF field.required /\ rawValue = <<>> THEN Outcome(FALSE, Some(MsgRequired))
    ELSE IF trimmed = <<>> THEN Outcome(FALSE, None)
    ELSE IF field.type = "number" /\ numberCheck(field, trimmed) # None
         THEN Outcome(FALSE, numberCheck(field, trimmed))
    ELSE IF field.type = "text" /\ Truthy(field.pattern)
         THEN patternCheck(field.pattern[1], trimmed)
    ELSE Outcome(FALSE, None)

\* validateField with a select value checked against the options
validateField_SelectStrict(field, rawValue) ==
    LET trimmed == trim(rawValue) IN
    IF field.required /\ trimmed = <<>> THEN Outcome(FALSE, Some(MsgRequired))
    ELSE IF trimmed = <<>> THEN Outcome(FALSE, None)
    ELSE IF field.type = "number" /\ numberCheck(field, trimmed) # None
         THEN Outcome(FALSE, numberCheck(field, trimmed))
    ELSE IF field.type = "text" /\ Truthy(field.pattern)
         THEN patternCheck(field.pattern[1], trimmed)
    ELSE IF field.type = "select" /\ field.options # None
            /\ \A k \in 1..Len(field.options[1]) : field.options[1][k] # rawValue
         THEN Outcome(FALSE, Some(MsgPattern))
    ELSE Outcome(FALSE, None)

\* the body of the loop of validate, for one field
validateField(field, rawValue) ==
    LET trimmed == trim(rawValue) IN
    IF field.required /\ trimmed = <<>> THEN Outcome(FALSE, Some(MsgRequired))
    ELSE IF trimmed = <<>> THEN Outcome(FALSE, None)
    ELSE IF field.type = "number" /\ numberCheck(field, trimmed) # None
         THEN Outcome(FALSE, numberCheck(field, trimmed))
    ELSE IF field.type = "text" /\ Truthy(field.pattern)
         THEN patternCheck(field.pattern[1], trimmed)
    ELSE Outcome(FALSE, None)

\* for (const field of schema.fields) { ... }, from the fields left to visit
RECURSIVE validateLoop(_, _, _)
validateLoop(fields, vals, newErrors) ==
    IF fields = <<>> THEN [thrown |-> FALSE, newErrors |-> newErrors]
    ELSE LET field == Head(fields)
             r     == validateField(field, RawOf(vals, field.id))
         IN IF r.thrown THEN [thrown |-> TRUE, newErrors |-> newErrors]
            ELSE validateLoop(Tail(fields), vals,
                     IF r.error = None THEN newErrors
                     ELSE Put(newErrors, field.id, r.error[1]))

\* validate with newErrors started from the errors of the previous pass
validate_Merged(fields, vals) == validateLoop(fields, vals, errors)

\* validate(): the map handed to setErrors; the pass succeeds when it is empty
validate(fields, vals) == validateLoop(fields, vals, EmptyMap)

----------------------------------------------------------------------------
(* DynamicForm.tsx: the record built by handleSubmit *)

NumberValue(n) == [kind |-> "number", num |-> n, str |-> <<>>]
StringValue(s) == [kind |-> "string", num |-> 0, str |-> s]

\* coerce storing the trimmed string
coerce_Trimmed(field, raw) ==
    IF field.type = "number" /\ trim(raw) # <<>>
    THEN NumberValue(Number(raw).val)
    ELSE StringValue(trim(raw))

\* let parsed = raw; if (number and raw.trim() !== '') parsed = Number(raw)
coerce(field, raw) ==
    IF field.type = "number" /\ trim(raw) # <<>>
    THEN NumberValue(Number(raw).val)
    ELSE StringValue(raw)

\* buildData that keeps the value of the first field of a name
RECURSIVE buildData_FirstWins(_, _, _)
buildData_FirstWins(fields, vals, data) ==
    IF fields = <<>> THEN data
    ELSE LET field == Head(fields) IN
         buildData_FirstWins(Tail(fields), vals,
             IF field.name \in DOMAIN data THEN data
             ELSE Put(data, field.name, coerce(field, RawOf(vals, field.id))))

\* schema.fields.forEach(field => data[field.name] = parsed)
RECURSIVE buildData(_, _, _)
buildData(fields, vals, data) ==
    IF fields = <<>> THEN data
    ELSE LET field == Head(fields) IN
         buildData(Tail(fields), vals,
                   Put(data, field.name, coerce(field, RawOf(vals, field.id))))

\* the all-empty raw input state of a schema
initialValues(fields) ==
    [id \in {fields[i].id : i \in 1..Len(fields)} |-> <<>>]

----------------------------------------------------------------------------
(* types: FieldSchema, FormSchema, FormEntry *)

FieldTypes == {"text", "number", "date", "select"}

Field(id, name, type, required, min, max, pattern, options) ==
    [id |-> id, name |-> name, label |-> "Field", type |-> type,
     required |-> required, placeholder |-> "",
     min |-> min, max |-> max, pattern |-> pattern, options |-> options]

Schema(id, fields, createdAt) ==
    [id |-> id, name |-> "Untitled Form", description |-> "",
     layout |-> "single-column", fields |-> fields,
     createdAt |-> createdAt, updatedAt |-> createdAt]

Entry(id, schemaId, createdAt, data) ==
    [id |-> id, schemaId |-> schemaId, createdAt |-> createdAt, data |-> data]

\* selectedSchemaId = null.  The identifiers generateId returns in a session
\* are 1, 2, ...; the identifiers found in the store are -1, -2, ...
Null == 0

FieldIds(fields) == {fields[i].id : i \in 1..Len(fields)}

----------------------------------------------------------------------------
(* App.tsx: what is rendered *)

\* schemas.find((s) => s.id === id) ?? null
find(ss, id) ==
    LET I == {i \in 1..Len(ss) : ss[i].id = id}
    IN IF I = {} THEN None ELSE Some(ss[SetMin(I)])

selectedSchema == find(schemas, selectedSchemaId)

\* {selectedSchema && activeTab === 'form' && <DynamicForm .../>}
FormMounted(ss, sel, tab) == find(ss, sel) # None /\ tab = "form"

\* FormState of a form that is rendered under every tab (hidden, not
\* unmounted, when another tab is shown)
FormState_KeepAlive(ss, sel, tab) ==
    IF find(ss, sel) = None
    THEN [values |-> EmptyMap, errors |-> EmptyMap]
    ELSE IF selectedSchema # None /\ find(ss, sel) = selectedSchema
         THEN [values |-> values, errors |-> errors]
         ELSE [values |-> initialValues(find(ss, sel)[1].fields),
               errors |-> EmptyMap]

\* FormState of a form whose effect has no dependency on [schema]: a form
\* that stays mounted keeps its state when its schema prop changes
FormState_NoSchemaDep(ss, sel, tab) ==
    IF ~FormMounted(ss, sel, tab)
    THEN [values |-> EmptyMap, errors |-> EmptyMap]
    ELSE IF FormMounted(schemas, selectedSchemaId, activeTab)
         THEN [values |-> values, errors |-> errors]
         ELSE [values |-> initialValues(find(ss, sel)[1].fields),
               errors |-> EmptyMap]

\* The state of DynamicForm once App has rendered (ss, sel, tab) and the
\* effects have run: a form that is not rendered has no state; a form that
\* stays mounted on the same schema object keeps its state; a form that is
\* mounted, or whose schema prop changed, runs the effect on [schema], which
\* empties every field and clears the errors.
FormState(ss, sel, tab) ==
    IF ~FormMounted(ss, sel, tab)
    THEN [values |-> EmptyMap, errors |-> EmptyMap]
    ELSE IF FormMounted(schemas, selectedSchemaId, activeTab)
            /\ find(ss, sel) = selectedSchema
         THEN [values |-> values, errors |-> errors]
         ELSE [values |-> initialValues(find(ss, sel)[1].fields),
               errors |-> EmptyMap]

\* {selectedSchema && activeTab === 'entries' && <EntriesTable .../>}
TableMounted(ss, sel, tab) == find(ss, sel) # None /\ tab = "entries"

\* useState(''), useState(0), useState(10)
InitialTable == [search |-> <<>>, page |-> 0, pageSize |-> 10]

\* The state of EntriesTable once App has rendered (ss, sel, tab): a table
\* that is not rendered has no state and starts from its initial state when
\* it is mounted; a table that stays mounted keeps its state, also when its
\* schema or its entries change (it has no effect that resets it).
TableState(ss, sel, tab) ==
    IF TableMounted(ss, sel, tab)
       /\ TableMounted(schemas, selectedSchemaId, activeTab)
    THEN [search |-> search, page |-> page, pageSize |-> pageSize]
    ELSE InitialTable

\* the <form> is rendered: the schema has at least one field
FormRendered ==
    /\ FormMounted(schemas, selectedSchemaId, activeTab)
    /\ Len(selectedSchema[1].fields) > 0

RECURSIVE SumLen(_, _)
SumLen(vals, ids) ==
    IF ids = {} THEN 0
    ELSE LET id == CHOOSE x \in ids : TRUE
         IN Len(vals[id]) + SumLen(vals, ids \ {id})

TotalLen(vals) == SumLen(vals, DOMAIN vals)

\* the characters a stored value stands for
RECURSIVE Digits(_)
Digits(n) == IF n < 10 THEN 1 ELSE 1 + Digits(n \div 10)

ValueLen(v) == IF v.kind = "number" THEN Digits(v.num) ELSE Len(v.str)

RECURSIVE DataLen(_, _)
DataLen(data, keys) ==
    IF keys = {} THEN 0
    ELSE LET k == CHOOSE x \in keys : TRUE
         IN ValueLen(data[k]) + DataLen(data, keys \ {k})

RECURSIVE StoredLen(_)
StoredLen(es) ==
    IF es = <<>> THEN 0
    ELSE DataLen(Head(es).data, DOMAIN Head(es).data) + StoredLen(Tail(es))

\* The characters field fieldId may hold for the exploration to stay within
\* MaxTotalLen characters of user input.
Room(fieldId) ==
    MaxTotalLen - StoredLen(entries)
        - (TotalLen(values) - Len(RawOf(values, fieldId)))

----------------------------------------------------------------------------
(* App.tsx: handleFormSubmit, the onSubmit of DynamicForm *)

handleFormSubmit(data) ==
    IF selectedSchema = None
    THEN UNCHANGED <<entries, nextId>>
    ELSE /\ entries' = <<Entry(nextId, selectedSchema[1].id, clock, data)>> \o entries
         /\ nextId' = nextId + 1

----------------------------------------------------------------------------
(* DynamicForm.tsx: the handlers of the form *)

\* onChange of the input of field fieldId
updateValue(fieldId, value) ==
    /\ FormRendered
    /\ fieldId \in FieldIds(selectedSchema[1].fields)
    /\ values' = Put(values, fieldId, value)
    /\ UNCHANGED <<schemas, entries, selectedSchemaId, activeTab, errors,
                   tableVars, clock, nextId>>

\* the user sets the input of a field to one of the strings of inputs
Type(inputs) ==
    \E fieldId \in DOMAIN values :
        \E value \in {v \in inputs : Len(v) <= Room(fieldId)} :
            updateValue(fieldId, value)

UpdateValue == Type(RawStrings)

\* handleSubmit that goes on after a failed validation
handleSubmit_IgnoreResult ==
    /\ FormRendered
    /\ Len(entries) < MaxEntries
    /\ nextId <= MaxIds
    /\ LET fields == selectedSchema[1].fields
       IN /\ handleFormSubmit(buildData(fields, values, EmptyMap))
          /\ values' = initialValues(fields)
          /\ errors' = EmptyMap
          /\ UNCHANGED <<schemas, selectedSchemaId, activeTab, tableVars, clock>>

\* handleSubmit that empties the fields before it validates
handleSubmit_ResetFirst ==
    /\ FormRendered
    /\ Len(entries) < MaxEntries
    /\ nextId <= MaxIds
    /\ LET fields == selectedSchema[1].fields
           pass   == validate(fields, values)
       IN IF pass.thrown
          THEN UNCHANGED vars
          ELSE IF pass.newErrors # EmptyMap
          THEN /\ errors' = pass.newErrors
               /\ values' = initialValues(fields)
               /\ UNCHANGED <<schemas, entries, selectedSchemaId, activeTab,
                              tableVars, clock, nextId>>
          ELSE /\ handleFormSubmit(buildData(fields, values, EmptyMap))
               /\ values' = initialValues(fields)
               /\ errors' = EmptyMap
               /\ UNCHANGED <<schemas, selectedSchemaId, activeTab, tableVars, clock>>

\* onSubmit of the <form>
handleSubmit ==
    /\ FormRendered
    /\ Len(entries) < MaxEntries
    /\ nextId <= MaxIds
    /\ LET fields == selectedSchema[1].fields
           pass   == validate(fields, values)
       IN IF pass.thrown
          THEN UNCHANGED vars
          ELSE IF pass.newErrors # EmptyMap
          THEN /\ errors' = pass.newErrors
               /\ UNCHANGED <<schemas, entries, selectedSchemaId, activeTab,
                              values, tableVars, clock, nextId>>
          ELSE /\ handleFormSubmit(buildData(fields, values, EmptyMap))
               /\ values' = initialValues(fields)
               /\ errors' = EmptyMap
               /\ UNCHANGED <<schemas, selectedSchemaId, activeTab, tableVars, clock>>

----------------------------------------------------------------------------
(* The form on a schema loaded from storage *)

MinValues     == {None, Some(11)}
MaxValues     == {None, Some(0), Some(11)}
PatternValues == {None, Some(PatLetters), Some(PatDigit), Some(PatInvalid)}
OptionValues  == {None, Some(<< <<"a">> >>)}

\* The first field of the stored schema: every type, with each combination
\* of the constraints of its own type, and with or without constraints
\* that belong to the other types.
NumberProbes ==
    {Field(Null, "field_1", "number", r, mn, mx, p, None) :
        r \in BOOLEAN, mn \in MinValues, mx \in MaxValues,
        p \in {None, Some(PatLetters)}}

TextProbes ==
    {Field(Null, "field_1", "text", r, b[1], b[2], p, None) :
        r \in BOOLEAN, p \in PatternValues,
        b \in {<<None, None>>, <<Some(11), Some(0)>>}}

DateProbes ==
    {Field(Null, "field_1", "date", r, c[1], c[2], c[3], c[4]) :
        r \in BOOLEAN,
        c \in {<<None, None, None, None>>,
               <<Some(11), Some(0), Some(PatLetters), Some(<< <<"a">> >>)>>}}

SelectProbes ==
    {Field(Null, "field_1", "select", r, c[1], c[2], c[3], o) :
        r \in BOOLEAN, o \in OptionValues,
        c \in {<<None, None, None>>, <<Some(11), Some(0), Some(PatLetters)>>}}

ProbeFields == NumberProbes \cup TextProbes \cup DateProbes \cup SelectProbes

\* the first field of a stored schema of two fields or more
LeadFields ==
    {Field(Null, "field_1", "text", FALSE, None, None, Some(PatInvalid), None),
     Field(Null, "field_1", "text", TRUE, None, None, Some(PatLetters), None),
     Field(Null, "field_1", "number", FALSE, Some(11), None, None, None),
     Field(Null, "field_1", "number", TRUE, None, None, None, None)}

\* the second field: a required number, or an optional text field that
\* has the name of the first field
SecondFields ==
    {Field(Null, "field_2", "number", TRUE, None, Some(11), None, None),
     Field(Null, "field_1", "text", FALSE, None, None, None, None)}

\* the fields after the second
FillerField == Field(Null, "field_3", "date", FALSE, None, None, None, None)

StoredField(lead, second, i) ==
    [(IF i = 1 THEN lead ELSE IF i = 2 THEN second ELSE FillerField)
        EXCEPT !.id = 0 - (i + 1)]

StoredFieldLists ==
    {<<StoredField(p, p, 1)>> : p \in ProbeFields}
    \cup UNION {
        {[i \in 1..n |-> StoredField(lead, second, i)] :
            lead \in LeadFields, second \in SecondFields}
        : n \in 2..MaxFields}

InitForm ==
    \E fields \in StoredFieldLists :
        /\ schemas = <<Schema(0 - 1, fields, 0)>>
        /\ entries = <<>>
        /\ selectedSchemaId = 0 - 1
        /\ activeTab = "form"
        /\ values = initialValues(fields)
        /\ errors = EmptyMap
        /\ search = InitialTable.search
        /\ page = InitialTable.page
        /\ pageSize = InitialTable.pageSize
        /\ clock = 0
        /\ nextId = 1

NextForm == UpdateValue \/ handleSubmit

SpecForm == InitForm /\ [][NextForm]_vars

----------------------------------------------------------------------------
(* App.tsx: the handlers of the shell *)

\* The state after a handler of App has set (ss, es, sel, tab): the effect
\* on [schemas, selectedSchemaId] selects the first schema when none is
\* selected, and the form is rendered on the result.
Render(ss, es, sel, tab) ==
    LET sel2 == IF sel = Null /\ Len(ss) > 0 THEN ss[1].id ELSE sel
    IN /\ schemas' = ss
       /\ entries' = es
       /\ selectedSchemaId' = sel2
       /\ activeTab' = tab
       /\ values' = FormState(ss, sel2, tab).values
       /\ errors' = FormState(ss, sel2, tab).errors
       /\ search' = TableState(ss, sel2, tab).search
       /\ page' = TableState(ss, sel2, tab).page
       /\ pageSize' = TableState(ss, sel2, tab).pageSize

handleCreateSchema ==
    /\ nextId <= MaxIds
    /\ Len(schemas) < MaxSchemas
    /\ Render(Append(schemas, Schema(nextId, <<>>, clock)), entries, nextId, "schema")
    /\ nextId' = nextId + 1
    /\ UNCHANGED clock

\* onSelect of SchemaList: setSelectedSchemaId
onSelect(id) ==
    /\ \E i \in 1..Len(schemas) : schemas[i].id = id
    /\ Render(schemas, entries, id, activeTab)
    /\ UNCHANGED <<clock, nextId>>

\* prev.map((s) => (s.id === updated.id ? updated : s))
handleUpdateSchema(updated) ==
    Render([i \in 1..Len(schemas) |->
               IF schemas[i].id = updated.id THEN updated ELSE schemas[i]],
           entries, selectedSchemaId, activeTab)

\* handleDeleteSchema that keeps the entries of the schema it deletes
handleDeleteSchema_KeepEntries(id, confirmed) ==
    /\ \E i \in 1..Len(schemas) : schemas[i].id = id
    /\ IF ~confirmed THEN UNCHANGED vars
       ELSE /\ Render(SelectSeq(schemas, LAMBDA sc : sc.id # id),
                      entries,
                      IF selectedSchemaId = id THEN schemas[1].id ELSE selectedSchemaId,
                      activeTab)
            /\ UNCHANGED <<clock, nextId>>

\* the selection falls back to schemas[0] of the render in which the
\* handler was created, that is, of the collection before the deletion
handleDeleteSchema(id, confirmed) ==
    /\ \E i \in 1..Len(schemas) : schemas[i].id = id
    /\ IF ~confirmed THEN UNCHANGED vars
       ELSE /\ Render(SelectSeq(schemas, LAMBDA sc : sc.id # id),
                      SelectSeq(entries, LAMBDA e : e.schemaId # id),
                      IF selectedSchemaId = id THEN schemas[1].id ELSE selectedSchemaId,
                      activeTab)
            /\ UNCHANGED <<clock, nextId>>

\* A member of an object read from a file is None when the file does not
\* give it.  JSON.stringify(schemas), parsed again:
exported(ss) ==
    [i \in 1..Len(ss) |->
        [id |-> Some(ss[i].id), name |-> Some(ss[i].name),
         description |-> Some(ss[i].description), layout |-> Some(ss[i].layout),
         fields |-> Some(ss[i].fields), createdAt |-> Some(ss[i].createdAt),
         updatedAt |-> Some(ss[i].updatedAt)]]

\* the object {}
EmptyObject ==
    [id |-> None, name |-> None, description |-> None, layout |-> None,
     fields |-> None, createdAt |-> None, updatedAt |-> None]

\* x ?? y
OrElse(x, y) == IF x # None THEN x[1] ELSE y

\* normalize(raw), where generated is what generateId() would return
normalize(raw, generated, now) ==
    [id |-> OrElse(raw.id, generated),
     name |-> OrElse(raw.name, "Imported Form"),
     description |-> OrElse(raw.description, ""),
     layout |-> OrElse(raw.layout, "single-column"),
     fields |-> OrElse(raw.fields, <<>>),
     createdAt |-> OrElse(raw.createdAt, now),
     updatedAt |-> OrElse(raw.updatedAt, now)]

\* the number of calls of generateId for the objects before the i-th
generatedBefore(raws, i) ==
    Cardinality({j \in 1..(i - 1) : raws[j].id = None})

\* reader.onload of handleImportSchemas on a file whose text is file.text:
\* file.json is FALSE when JSON.parse throws, file.array tells whether the
\* value is an array, and file.items are the objects to normalize
handleImportSchemas(file) ==
    IF ~file.json
    THEN UNCHANGED vars
    ELSE LET raws == file.items
             imported ==
                 [i \in 1..Len(raws) |->
                     normalize(raws[i], nextId + generatedBefore(raws, i), clock)]
         IN /\ Len(schemas) + Len(raws) <= MaxSchemas
            /\ nextId + generatedBefore(raws, Len(raws) + 1) - 1 <= MaxIds
            /\ Render(schemas \o imported, entries,
                      IF selectedSchemaId = Null /\ Len(imported) > 0
                      THEN imported[1].id ELSE selectedSchemaId,
                      activeTab)
            /\ nextId' = nextId + generatedBefore(raws, Len(raws) + 1)
            /\ UNCHANGED clock

\* the tab buttons, rendered when a schema is selected
setActiveTab(tab) ==
    /\ selectedSchema # None
    /\ Render(schemas, entries, selectedSchemaId, tab)
    /\ UNCHANGED <<clock, nextId>>

----------------------------------------------------------------------------
(* SchemaEditor: rendered on the selected schema when the tab is 'schema' *)

EditorRendered == selectedSchema # None /\ activeTab = "schema"

\* updateSchema that does not refresh updatedAt
updateSchema_NoTimestamp(patch) ==
    handleUpdateSchema(Merge(selectedSchema[1], patch))

updateSchema(patch) ==
    handleUpdateSchema(Merge(Merge(selectedSchema[1], patch), [updatedAt |-> clock]))

updateField(fieldId, patch) ==
    LET fields == selectedSchema[1].fields IN
    updateSchema([fields |->
        [i \in 1..Len(fields) |->
            IF fields[i].id = fieldId THEN Merge(fields[i], patch) ELSE fields[i]]])

\* the field addField creates: `field_${index}` and `Field ${index}`
newField(id, index) ==
    [id |-> id,
     name |-> "field_" \o ToString(index),
     label |-> "Field " \o ToString(index),
     type |-> "text", required |-> FALSE, placeholder |-> "",
     min |-> None, max |-> None, pattern |-> None, options |-> None]

addField ==
    /\ EditorRendered
    /\ nextId <= MaxIds
    /\ Len(selectedSchema[1].fields) < MaxFields
    /\ LET fields == selectedSchema[1].fields
           index  == Len(fields) + 1
       IN updateSchema([fields |-> Append(fields, newField(nextId, index))])
    /\ nextId' = nextId + 1
    /\ UNCHANGED clock

removeField(fieldId) ==
    /\ EditorRendered
    /\ fieldId \in FieldIds(selectedSchema[1].fields)
    /\ updateSchema([fields |->
           SelectSeq(selectedSchema[1].fields, LAMBDA f : f.id # fieldId)])
    /\ UNCHANGED <<clock, nextId>>

\* FieldEditorRow: the patches its inputs hand to onChange
NamePatch(name) == [name |-> name]

RequiredPatch(checked) == [required |-> checked]

\* handleTypeChange that leaves the options of the field alone
handleTypeChange_KeepOptions(newType) == [type |-> newType]

handleTypeChange(newType) ==
    IF newType # "select"
    THEN [type |-> newType, options |-> None]
    ELSE [type |-> newType]

\* onChange of the row of field fieldId
editField(fieldId, patch) ==
    /\ EditorRendered
    /\ fieldId \in FieldIds(selectedSchema[1].fields)
    /\ updateField(fieldId, patch)
    /\ UNCHANGED <<clock, nextId>>

\* text.split(',')
RECURSIVE split(_)
split(text) ==
    LET I == {i \in 1..Len(text) : text[i] = ","} IN
    IF I = {} THEN <<text>>
    ELSE <<SubSeq(text, 1, SetMin(I) - 1)>>
             \o split(SubSeq(text, SetMin(I) + 1, Len(text)))

\* the options input, rendered when the type of the field is 'select':
\* e.target.value.split(',').map((o) => o.trim()).filter(Boolean)
OptionsPatch(text) ==
    LET pieces  == split(text)
        trimmed == [i \in 1..Len(pieces) |-> trim(pieces[i])]
    IN [options |-> Some(SelectSeq(trimmed, LAMBDA o : o # <<>>))]

\* the field with identifier fieldId of the schema the editor shows
fieldOf(fieldId) ==
    LET fields == selectedSchema[1].fields
    IN fields[CHOOSE i \in 1..Len(fields) : fields[i].id = fieldId]

\* onChange of the options input of the row of field fieldId
editOptions(fieldId, text) ==
    /\ EditorRendered
    /\ fieldId \in FieldIds(selectedSchema[1].fields)
    /\ fieldOf(fieldId).type = "select"
    /\ updateField(fieldId, OptionsPatch(text))
    /\ UNCHANGED <<clock, nextId>>

\* onChange of the "Form name" input
onNameChange(name) ==
    /\ EditorRendered
    /\ updateSchema([name |-> name])
    /\ UNCHANGED <<clock, nextId>>

\* onChange of the "Description" textarea
onDescriptionChange(description) ==
    /\ EditorRendered
    /\ updateSchema([description |-> description])
    /\ UNCHANGED <<clock, nextId>>

handleLayoutChange(layout) ==
    /\ EditorRendered
    /\ updateSchema([layout |-> layout])
    /\ UNCHANGED <<clock, nextId>>

----------------------------------------------------------------------------
(* A session of the application, started on an empty store *)

\* the edits of a field made in the session
SessionPatches ==
    {NamePatch("key"), handleTypeChange("number")}

Init ==
    /\ schemas = <<>>
    /\ entries = <<>>
    /\ selectedSchemaId = Null
    /\ activeTab = "form"
    /\ values = EmptyMap
    /\ errors = EmptyMap
    /\ search = InitialTable.search
    /\ page = InitialTable.page
    /\ pageSize = InitialTable.pageSize
    /\ clock = 0
    /\ nextId = 1

\* what the user types in the session
SessionInputs == {<<>>, <<" ">>, <<"a">>, <<"1">>}

TypeValue == Type(SessionInputs)

CreateSchema == handleCreateSchema

SelectSchema == \E i \in 1..Len(schemas) : onSelect(schemas[i].id)

DeleteSchema ==
    \E i \in 1..Len(schemas), confirmed \in BOOLEAN :
        handleDeleteSchema(schemas[i].id, confirmed)

SetActiveTab == \E tab \in {"form", "entries", "schema"} : setActiveTab(tab)

AddField == addField

RemoveField ==
    /\ EditorRendered
    /\ \E fieldId \in FieldIds(selectedSchema[1].fields) : removeField(fieldId)

EditField ==
    /\ EditorRendered
    /\ \E fieldId \in FieldIds(selectedSchema[1].fields), patch \in SessionPatches :
          editField(fieldId, patch)

Next ==
    \/ CreateSchema
    \/ SelectSchema
    \/ DeleteSchema
    \/ SetActiveTab
    \/ AddField
    \/ RemoveField
    \/ EditField
    \/ TypeValue
    \/ handleSubmit

Spec == Init /\ [][Next]_vars

----------------------------------------------------------------------------
(* The editor on a schema loaded from storage, once the user has opened    *)
(* the Schema Designer tab                                                  *)

\* time passes: new Date() returns a later value
Tick ==
    /\ clock < MaxClock
    /\ clock' = clock + 1
    /\ UNCHANGED <<schemas, entries, selectedSchemaId, activeTab, values, errors,
                   tableVars, nextId>>

\* the fields of a stored schema as addField left them
EditorFieldLists ==
    {[i \in 1..n |-> newField(0 - (i + 1), i)] : n \in 0..MaxFields}

InitEditor ==
    \E fields \in EditorFieldLists :
        /\ schemas = <<Schema(0 - 1, fields, 0)>>
        /\ entries = <<>>
        /\ selectedSchemaId = 0 - 1
        /\ activeTab = "schema"
        /\ values = EmptyMap
        /\ errors = EmptyMap
        /\ search = InitialTable.search
        /\ page = InitialTable.page
        /\ pageSize = InitialTable.pageSize
        /\ clock = 0
        /\ nextId = 1

\* what the user types into the options input
OptionTexts == {<<>>, <<"a", ",", " ">>, <<"a", ",", "1">>}

EditType ==
    /\ EditorRendered
    /\ \E fieldId \in FieldIds(selectedSchema[1].fields), newType \in FieldTypes :
          editField(fieldId, handleTypeChange(newType))

EditOptions ==
    /\ EditorRendered
    /\ \E fieldId \in FieldIds(selectedSchema[1].fields), text \in OptionTexts :
          editOptions(fieldId, text)

RenameField ==
    /\ EditorRendered
    /\ \E fieldId \in FieldIds(selectedSchema[1].fields) :
          editField(fieldId, NamePatch("key"))

EditName == \E name \in {"Untitled Form", "a"} : onNameChange(name)

EditDescription == \E description \in {"", "a"} : onDescriptionChange(description)

EditLayout ==
    \E layout \in {"single-column", "two-column"} : handleLayoutChange(layout)

\* the operations of the editor on the schema and on its list of fields,
\* while time passes
NextEditor ==
    \/ AddField
    \/ RemoveField
    \/ RenameField
    \/ EditName
    \/ EditDescription
    \/ EditLayout
    \/ Tick

SpecEditor == InitEditor /\ [][NextEditor]_vars

\* the operations of the editor on the fields: their types and options
NextFields ==
    \/ AddField
    \/ RemoveField
    \/ EditType
    \/ EditOptions

SpecFields == InitEditor /\ [][NextFields]_vars

----------------------------------------------------------------------------
(* The shell on a store that holds schemas and entries of earlier sessions *)

\* the k-th stored schema: one optional text field, as addField creates it
StoredSchema(k) == Schema(0 - 10 * k, <<newField(0 - (10 * k + 1), 1)>>, 0)

\* an entry submitted to the k-th stored schema with its field left empty
StoredEntry(k) ==
    Entry(0 - (100 + k), 0 - 10 * k, 0,
          buildData(StoredSchema(k).fields, EmptyMap, EmptyMap))

InitStore ==
    \E n \in 0..(MaxSchemas - 1) : \E withEntry \in SUBSET (1..n) :
        /\ schemas = [k \in 1..n |-> StoredSchema(k)]
        /\ entries = SelectSeq([k \in 1..n |-> StoredEntry(k)],
                               LAMBDA e : \E k \in withEntry : e = StoredEntry(k))
        /\ selectedSchemaId = IF n = 0 THEN Null ELSE StoredSchema(1).id
        /\ activeTab = "form"
        /\ values = IF n = 0 THEN EmptyMap
                    ELSE initialValues(StoredSchema(1).fields)
        /\ errors = EmptyMap
        /\ search = InitialTable.search
        /\ page = InitialTable.page
        /\ pageSize = InitialTable.pageSize
        /\ clock = 0
        /\ nextId = 1

\* the files the user imports: text that is not JSON, the file written by
\* Export from the schemas shown, the object {} and the array []
ImportFiles ==
    {[json |-> FALSE, array |-> FALSE, items |-> <<>>],
     [json |-> TRUE, array |-> TRUE, items |-> exported(schemas)],
     [json |-> TRUE, array |-> FALSE, items |-> <<EmptyObject>>],
     [json |-> TRUE, array |-> TRUE, items |-> <<>>]}

ImportSchemas == \E file \in ImportFiles : handleImportSchemas(file)

NextStore ==
    \/ CreateSchema
    \/ SelectSchema
    \/ DeleteSchema
    \/ ImportSchemas
    \/ SetActiveTab
    \/ handleSubmit

SpecStore == InitStore /\ [][NextStore]_vars

----------------------------------------------------------------------------
(* EntriesTable: rendered on the selected schema and on its entries when   *)
(* the tab is 'entries'.  The table is modelled under the sort it starts   *)
(* with (createdAt, descending); handleSort reorders the rows and changes   *)
(* neither their number nor the page.                                      *)

MathMax(a, b) == IF a >= b THEN a ELSE b
MathMin(a, b) == IF a <= b THEN a ELSE b

\* entries.filter((e) => e.schemaId === selectedSchema.id)
schemaEntries ==
    IF selectedSchema = None THEN <<>>
    ELSE SelectSeq(entries, LAMBDA e : e.schemaId = selectedSchema[1].id)

\* String.prototype.toLowerCase on the characters a user types
toLowerCase(str) == [i \in 1..Len(str) |-> IF str[i] = "A" THEN "a" ELSE str[i]]

\* String.prototype.includes
includes(str, q) ==
    \E i \in 1..(Len(str) - Len(q) + 1) : SubSeq(str, i, i + Len(q) - 1) = q

\* the characters of a digit and of a non-negative integer
DigitChar(d) ==
    CASE d = 0 -> "0" [] d = 1 -> "1" [] d = 2 -> "2" [] d = 3 -> "3"
      [] d = 4 -> "4" [] d = 5 -> "5" [] d = 6 -> "6" [] d = 7 -> "7"
      [] d = 8 -> "8" [] d = 9 -> "9"

RECURSIVE NumberText(_)
NumberText(n) ==
    IF n < 10 THEN <<DigitChar(n)>>
    ELSE NumberText(n \div 10) \o <<DigitChar(n % 10)>>

\* String(val ?? '')
StringOf(data, name) ==
    IF name \notin DOMAIN data THEN <<>>
    ELSE IF data[name].kind = "number" THEN NumberText(data[name].num)
    ELSE data[name].str

\* new Date(createdAt).toLocaleString(), in a locale that writes dates
\* with digits and punctuation only
toLocaleString(t) == NumberText(t) \o <<":">>

\* values.join(' ') of the date and of the value of every field
RECURSIVE joinValues(_, _)
joinValues(fields, data) ==
    IF fields = <<>> THEN <<>>
    ELSE <<" ">> \o StringOf(data, Head(fields).name)
             \o joinValues(Tail(fields), data)

rowText(schema, entry) ==
    toLocaleString(entry.createdAt) \o joinValues(schema.fields, entry.data)

\* the rows the table shows, all pages together
filteredAndSorted ==
    IF trim(search) = <<>> THEN schemaEntries
    ELSE SelectSeq(schemaEntries,
             LAMBDA e : includes(toLowerCase(rowText(selectedSchema[1], e)),
                                 toLowerCase(search)))

\* Math.max(1, Math.ceil(rows / size))
pageCountOf(rows, size) == MathMax(1, (rows + size - 1) \div size)

pageCount == pageCountOf(Len(filteredAndSorted), pageSize)

\* the page shown: Math.min(page, pageCount - 1)
currentPage == MathMin(page, pageCount - 1)

\* filteredAndSorted.slice(currentPage * pageSize, currentPage * pageSize + pageSize)
pageItems ==
    SubSeq(filteredAndSorted, currentPage * pageSize + 1,
           MathMin(currentPage * pageSize + pageSize, Len(filteredAndSorted)))

TableRendered == TableMounted(schemas, selectedSchemaId, activeTab)

\* onChange of the search input
onSearchChange(text) ==
    /\ TableRendered
    /\ search' = text
    /\ page' = 0
    /\ UNCHANGED <<schemas, entries, selectedSchemaId, activeTab, values, errors,
                   pageSize, clock, nextId>>

handlePageSizeChange(size) ==
    /\ TableRendered
    /\ pageSize' = size
    /\ page' = 0
    /\ UNCHANGED <<schemas, entries, selectedSchemaId, activeTab, values, errors,
                   search, clock, nextId>>

\* the Previous button: disabled on the first page shown
onPrevious ==
    /\ TableRendered
    /\ schemaEntries # <<>>
    /\ currentPage # 0
    /\ page' = MathMax(0, page - 1)
    /\ UNCHANGED <<schemas, entries, selectedSchemaId, activeTab, values, errors,
                   search, pageSize, clock, nextId>>

\* the Next button: disabled on the last page shown
onNext ==
    /\ TableRendered
    /\ schemaEntries # <<>>
    /\ currentPage < pageCount - 1
    /\ page' = MathMin(pageCount - 1, page + 1)
    /\ UNCHANGED <<schemas, entries, selectedSchemaId, activeTab, values, errors,
                   search, pageSize, clock, nextId>>

\* the Delete button of a row of the page shown
handleDeleteEntry(entryId) ==
    /\ TableRendered
    /\ \E i \in 1..Len(pageItems) : pageItems[i].id = entryId
    /\ Render(schemas, SelectSeq(entries, LAMBDA e : e.id # entryId),
              selectedSchemaId, activeTab)
    /\ UNCHANGED <<clock, nextId>>

\* the Clear All button: disabled when the schema has no entries
handleClearEntries(confirmed) ==
    /\ TableRendered
    /\ schemaEntries # <<>>
    /\ IF ~confirmed THEN UNCHANGED vars
       ELSE /\ Render(schemas,
                      SelectSeq(entries, LAMBDA e : e.schemaId # selectedSchema[1].id),
                      selectedSchemaId, activeTab)
            /\ UNCHANGED <<clock, nextId>>

----------------------------------------------------------------------------
(* The table on a store that holds the entries of earlier sessions *)

\* the k-th stored entry of the first stored schema: every second entry
\* was submitted with the letter a in its field
StoredRow(k) ==
    LET fields == StoredSchema(1).fields
        typed  == [id \in FieldIds(fields) |->
                      IF k % 2 = 1 THEN <<"a">> ELSE <<>>]
    IN Entry(0 - (100 + k), StoredSchema(1).id, 0,
             buildData(fields, typed, EmptyMap))

InitTable ==
    \E n \in 0..MaxRows :
        /\ schemas = <<StoredSchema(1)>>
        /\ entries = [k \in 1..n |-> StoredRow(k)]
        /\ selectedSchemaId = StoredSchema(1).id
        /\ activeTab = "form"
        /\ values = initialValues(StoredSchema(1).fields)
        /\ errors = EmptyMap
        /\ search = InitialTable.search
        /\ page = InitialTable.page
        /\ pageSize = InitialTable.pageSize
        /\ clock = 0
        /\ nextId = 1

\* <option value={5}>, <option value={10}>, <option value={25}>
PageSizes == {5, 10, 25}

Search == \E text \in {<<>>, <<"a">>} : onSearchChange(text)

ChangePageSize == \E size \in PageSizes : handlePageSizeChange(size)

DeleteEntry ==
    /\ TableRendered
    /\ \E i \in 1..Len(pageItems) : handleDeleteEntry(pageItems[i].id)

ClearEntries == \E confirmed \in BOOLEAN : handleClearEntries(confirmed)

NextTable ==
    \/ SetActiveTab
    \/ handleSubmit
    \/ Search
    \/ ChangePageSize
    \/ onPrevious
    \/ onNext
    \/ DeleteEntry
    \/ ClearEntries

SpecTable == InitTable /\ [][NextTable]_vars

----------------------------------------------------------------------------
(* Steps of a validation pass, recognised by what they change *)

\* the fields of the schema the form shows
formFields == selectedSchema[1].fields

\* a pass that reported at least one error: only validate stores a
\* non-empty error map
FailedPass == errors' # errors /\ errors' # EmptyMap

\* a pass that reported no error: only handleFormSubmit adds an entry
Submitted == Len(entries') = Len(entries) + 1

\* In both cases errors' is the map the pass reported.
PassStep == FailedPass \/ Submitted

Blank(fieldId) == trim(RawOf(values, fieldId)) = <<>>

Reports(fieldId, msg) == fieldId \in DOMAIN errors' /\ errors'[fieldId] = msg

NoReport(fieldId) == fieldId \notin DOMAIN errors'

----------------------------------------------------------------------------
(* C1: a validation pass reports "This field is required" for every        *)
(* required field whose trimmed raw value is empty, and reports nothing    *)
(* for a non-required field whose trimmed raw value is empty, whatever its *)
(* type, min, max or pattern.                                              *)
C1_RequiredEmpty ==
    [][PassStep =>
        \A i \in 1..Len(formFields) :
            LET f == formFields[i] IN
            Blank(f.id) =>
                IF f.required THEN Reports(f.id, MsgRequired) ELSE NoReport(f.id)
      ]_vars

\* after a pass: a required field holding only a blank has the required
\* error, and an optional blank field that carries constraints has none
C1_Witness ==
    /\ FormRendered
    /\ \E i, j \in 1..Len(formFields) :
          LET f == formFields[i]
              g == formFields[j]
          IN /\ f.required /\ RawOf(values, f.id) = <<" ">>
             /\ f.id \in DOMAIN errors /\ errors[f.id] = MsgRequired
             /\ ~g.required /\ RawOf(values, g.id) = <<>>
             /\ (g.min # None \/ g.pattern # None)
             /\ g.id \notin DOMAIN errors

----------------------------------------------------------------------------
(* C2: for a number field with a non-empty trimmed value a pass yields     *)
(* exactly one of, in this order: "Must be a valid number" when the value  *)
(* does not parse; "Must be >= min" when min is set and value < min;       *)
(* "Must be <= max" when max is set and value > max; otherwise no error.   *)
(* A value equal to min or max is accepted; when both bounds fail the min  *)
(* error is the one reported.                                              *)
C2_NumberOrder ==
    [][PassStep =>
        \A i \in 1..Len(formFields) :
            LET f == formFields[i]
                n == Number(trim(RawOf(values, f.id)))
            IN (f.type = "number" /\ ~Blank(f.id)) =>
                IF n.nan THEN Reports(f.id, MsgNotNumber)
                ELSE IF f.min # None /\ n.val < f.min[1]
                     THEN Reports(f.id, MsgMin(f.min[1]))
                ELSE IF f.max # None /\ n.val > f.max[1]
                     THEN Reports(f.id, MsgMax(f.max[1]))
                ELSE NoReport(f.id)
      ]_vars

\* after a pass: the value 1 fails min = 11 and max = 0, and the min error
\* is the one reported
C2_Witness ==
    /\ FormRendered
    /\ \E i \in 1..Len(formFields) :
          LET f == formFields[i] IN
          /\ f.type = "number" /\ f.min = Some(11) /\ f.max = Some(0)
          /\ RawOf(values, f.id) = <<"1">>
          /\ f.id \in DOMAIN errors /\ errors[f.id] = MsgMin(11)

----------------------------------------------------------------------------
(* C3: for a text field with a pattern and a non-empty trimmed value: if   *)
(* the pattern compiles, the pass reports "Value does not match required   *)
(* format" exactly when the trimmed value does not match; if it does not   *)
(* compile, the pass reports nothing for the field, and no exception       *)
(* leaves the pass, which goes on to the remaining fields.                 *)
C3_Pattern ==
    [][/\ FormRendered => ~validate(formFields, values).thrown
       /\ PassStep =>
            \A i \in 1..Len(formFields) :
                LET f == formFields[i]
                    t == trim(RawOf(values, f.id))
                IN (f.type = "text" /\ Truthy(f.pattern) /\ t # <<>>) =>
                    IF RegExpCompiles(f.pattern[1])
                    THEN IF RegExpTest(f.pattern[1], t)
                         THEN NoReport(f.id)
                         ELSE Reports(f.id, MsgPattern)
                    ELSE /\ NoReport(f.id)
                         /\ \A j \in (i + 1)..Len(formFields) :
                              (formFields[j].required /\ Blank(formFields[j].id))
                                  => Reports(formFields[j].id, MsgRequired)
      ]_vars

\* after a pass: the first field has a pattern that does not compile and a
\* value, and the only error is the one of the field after it
C3_Witness ==
    /\ FormRendered
    /\ Len(formFields) >= 2
    /\ LET f == formFields[1]
           g == formFields[2]
       IN /\ f.type = "text" /\ f.pattern = Some(PatInvalid)
          /\ trim(RawOf(values, f.id)) # <<>>
          /\ g.required /\ Blank(g.id)
          /\ DOMAIN errors = {g.id} /\ errors[g.id] = MsgRequired

----------------------------------------------------------------------------
OwnConstraints(f) ==
    [f EXCEPT !.min = IF f.type = "number" THEN f.min ELSE None,
              !.max = IF f.type = "number" THEN f.max ELSE None,
              !.pattern = IF f.type = "text" THEN f.pattern ELSE None,
              !.options = None]

(* C4: a constraint counts only for its own type: the errors of a pass are *)
(* those of the schema with min and max removed from every field that is   *)
(* not a number, pattern removed from every field that is not text, and    *)
(* options removed everywhere; a date or select field with a non-empty     *)
(* trimmed value is valid, also when the value is none of the options.     *)
C4_OwnTypeOnly ==
    [][PassStep =>
        /\ errors' = validate([i \in 1..Len(formFields) |->
                                  OwnConstraints(formFields[i])], values).newErrors
        /\ \A i \in 1..Len(formFields) :
              (formFields[i].type \in {"date", "select"} /\ ~Blank(formFields[i].id))
                  => NoReport(formFields[i].id)
      ]_vars

\* a select field with min, max, pattern and the single option "a" was
\* submitted with the value "1"
C4_Witness ==
    /\ FormRendered
    /\ entries # <<>>
    /\ \E i \in 1..Len(formFields) :
          LET f == formFields[i] IN
          /\ f.type = "select" /\ f.options = Some(<< <<"a">> >>)
          /\ f.min # None /\ f.max # None /\ f.pattern # None
          /\ f.name \in DOMAIN entries[1].data
          /\ entries[1].data[f.name] = StringValue(<<"1">>)

----------------------------------------------------------------------------
LastOfName(i) ==
    \A j \in (i + 1)..Len(formFields) : formFields[j].name # formFields[i].name

(* C5: the record of a successful submission has one key for every field   *)
(* name; the fields are written in schema order, so a name holds the value *)
(* of the last field that has it: the parsed number when the field is a    *)
(* number and its trimmed raw value is not empty, else the raw string as   *)
(* entered, untrimmed.                                                     *)
C5_Record ==
    [][Submitted =>
        LET data == entries'[1].data IN
        /\ DOMAIN data = {formFields[i].name : i \in 1..Len(formFields)}
        /\ \A i \in 1..Len(formFields) :
              LET f   == formFields[i]
                  raw == RawOf(values, f.id)
              IN LastOfName(i) =>
                  data[f.name] =
                      IF f.type = "number" /\ trim(raw) # <<>>
                      THEN NumberValue(DecimalValue(trim(raw)))
                      ELSE StringValue(raw)
      ]_vars

\* a stored record with a parsed number and with the blank of a number
\* field that was left empty
C5_Witness ==
    /\ entries # <<>>
    /\ LET data == entries[1].data IN
       /\ DOMAIN data = {"field_1", "field_2"}
       /\ data["field_1"] = StringValue(<<" ">>)
       /\ data["field_2"] = NumberValue(1)
    /\ FormRendered
    /\ formFields[1].type = "number"

----------------------------------------------------------------------------
(* C10: the error map after a pass holds exactly the fields that fail on   *)
(* the raw input of that pass, with nothing kept from an earlier pass; the *)
(* pass succeeds exactly when the map is empty.                            *)
C10_FreshMap ==
    [][PassStep =>
        /\ \A i \in 1..Len(formFields) :
              LET f == formFields[i] IN
              f.id \in DOMAIN errors'
                  <=> validateField(f, RawOf(values, f.id)).error # None
        /\ DOMAIN errors' \subseteq FieldIds(formFields)
        /\ Submitted <=> errors' = EmptyMap
      ]_vars

\* after a pass: the map has an entry for the first field only, and the
\* second field, which is required, holds a valid value
C10_Witness ==
    /\ FormRendered
    /\ Len(formFields) >= 2
    /\ DOMAIN errors = {formFields[1].id}
    /\ formFields[2].required
    /\ RawOf(values, formFields[2].id) = <<"1", "1">>

----------------------------------------------------------------------------
AllValid ==
    \A i \in 1..Len(formFields) :
        validateField(formFields[i], RawOf(values, formFields[i].id)).error = None

(* C6: a submit stores an entry for the selected schema exactly when the   *)
(* pass over the current raw input reports no error, and then stores one;  *)
(* so every entry is added by a step whose raw input is valid for every    *)
(* field of the schema it is stored for.                                   *)
C6_EmitIffValid ==
    [][/\ handleSubmit => (Submitted <=> AllValid)
       /\ Len(entries') <= Len(entries) + 1
       /\ Submitted =>
            /\ FormRendered
            /\ AllValid
            /\ Tail(entries') = entries
            /\ entries'[1].schemaId = selectedSchemaId
            /\ entries'[1].data = buildData(formFields, values, EmptyMap)
      ]_vars

\* an entry of the selected schema is stored and the form is shown
C6_Witness ==
    /\ FormRendered
    /\ Len(entries) = 1
    /\ entries[1].schemaId = selectedSchemaId
    /\ entries[1].data = Put(EmptyMap, "field_1", NumberValue(1))

----------------------------------------------------------------------------
(* C7: a submit whose pass reports an error changes the error map and      *)
(* nothing else: the raw input and the entries are as before, and the form *)
(* is still shown with its inputs.                                         *)
C7_FailedSubmitFrame ==
    [][/\ (handleSubmit /\ ~AllValid) => (values' = values /\ entries' = entries)
       /\ FailedPass =>
            /\ UNCHANGED <<schemas, entries, selectedSchemaId, activeTab,
                           values, clock, nextId>>
            /\ errors' = validate(formFields, values).newErrors
            /\ FormMounted(schemas', selectedSchemaId', activeTab')
      ]_vars

\* after a failed pass the field still holds the input that failed
C7_Witness ==
    /\ FormRendered
    /\ \E i \in 1..Len(formFields) :
          LET f == formFields[i] IN
          /\ f.type = "number"
          /\ RawOf(values, f.id) = <<"a">>
          /\ f.id \in DOMAIN errors /\ errors[f.id] = MsgNotNumber
    /\ entries = <<>>

----------------------------------------------------------------------------
selectedSchemaAfter == find(schemas', selectedSchemaId')

FormMountedAfter == FormMounted(schemas', selectedSchemaId', activeTab')

(* C8: when the schema shown by the form changes, and right after a        *)
(* successful submission, the raw input of every field of the schema shown *)
(* is the empty string and the error map is empty.                         *)
C8_Reset ==
    [][((FormMountedAfter /\ selectedSchemaAfter # selectedSchema) \/ Submitted) =>
        /\ values' = initialValues(selectedSchemaAfter[1].fields)
        /\ errors' = EmptyMap
      ]_vars

\* the form shows, with empty inputs, the first of two schemas: the second
\* was selected when it was created, so the schema shown has changed
C8_Witness ==
    /\ FormRendered
    /\ Len(schemas) = 2
    /\ selectedSchemaId = schemas[1].id
    /\ schemas[2].id # schemas[1].id
    /\ values = initialValues(formFields)
    /\ errors = EmptyMap

----------------------------------------------------------------------------
(* Steps of the renaming of a field *)

\* a step that changes the name of a field and adds or removes none
Renamed ==
    /\ Len(schemas') = Len(schemas)
    /\ \A i \in 1..Len(schemas) :
          Len(schemas'[i].fields) = Len(schemas[i].fields)
    /\ \E i \in 1..Len(schemas) : \E k \in 1..Len(schemas[i].fields) :
          schemas'[i].fields[k].name # schemas[i].fields[k].name

\* a step of the renaming of a field of the schema shown: the designer is
\* opened from the form, a field is renamed, the form is opened again
RenameWorkflowStep ==
    /\ selectedSchema # None
    /\ selectedSchemaId' = selectedSchemaId
    /\ entries' = entries
    /\ \/ Renamed
       \/ /\ schemas' = schemas
          /\ activeTab' # activeTab
          /\ {activeTab, activeTab'} = {"form", "schema"}

(* C9, as stated: renaming a field does not lose the raw input entered     *)
(* for it: no step of the renaming changes the raw input held under the    *)
(* id of a field of the schema shown.                                      *)
C9_RenameKeepsInput ==
    [][RenameWorkflowStep =>
        \A id \in FieldIds(selectedSchema[1].fields) :
            RawOf(values', id) = RawOf(values, id)
      ]_vars

(* C9, amended: renaming a field leaves the id of every field unchanged,   *)
(* but the raw input does not outlive it: the form holds no state while    *)
(* another tab is shown, a field can only be renamed then, and when the    *)
(* form is shown again every field of its schema is the empty string.      *)
C9_RenameResetsInput ==
    [][/\ activeTab # "form" => values = EmptyMap
       /\ Renamed =>
            /\ activeTab = "schema"
            /\ \A i \in 1..Len(schemas) : \A k \in 1..Len(schemas[i].fields) :
                  schemas'[i].fields[k].id = schemas[i].fields[k].id
            /\ values' = EmptyMap
       /\ (FormMountedAfter /\ ~FormMounted(schemas, selectedSchemaId, activeTab)) =>
            values' = initialValues(selectedSchemaAfter[1].fields)
      ]_vars

\* the form is shown on a schema whose field has been renamed, and the
\* input of that field is empty
C9_Witness ==
    /\ FormRendered
    /\ \E i \in 1..Len(formFields) :
          /\ formFields[i].name = "key"
          /\ formFields[i].id \in DOMAIN values
          /\ values[formFields[i].id] = <<>>

----------------------------------------------------------------------------
(* Steps of the editor, recognised by what they change *)

\* the schema the editor shows, before and after the step
editedSchema == selectedSchema[1]

editedSchemaAfter == find(schemas', selectedSchemaId')[1]

\* the position of the field with identifier id in fields, 0 when absent
indexOf(fields, id) ==
    LET I == {i \in 1..Len(fields) : fields[i].id = id}
    IN IF I = {} THEN 0 ELSE SetMin(I)

\* the identifiers of the fields that are in the schema before and after
keptIds == FieldIds(editedSchema.fields) \cap FieldIds(editedSchemaAfter.fields)

fieldBefore(id) == editedSchema.fields[indexOf(editedSchema.fields, id)]

fieldAfter(id) == editedSchemaAfter.fields[indexOf(editedSchemaAfter.fields, id)]

(* C11: no field whose type is not select carries options, and a step that *)
(* changes the type of a field away from select or back to select leaves   *)
(* the field without options: the options it had are not restored.         *)
C11_OptionsCleared ==
    /\ [](\A i \in 1..Len(schemas) : \A k \in 1..Len(schemas[i].fields) :
            schemas[i].fields[k].type # "select" =>
                schemas[i].fields[k].options = None)
    /\ [][\A id \in keptIds :
            (fieldBefore(id).type # fieldAfter(id).type
             /\ "select" \in {fieldBefore(id).type, fieldAfter(id).type})
                => fieldAfter(id).options = None
        ]_vars

\* a field that had its type changed has no options, next to a select
\* field that holds the two options typed for it
C11_Witness ==
    /\ EditorRendered
    /\ \E i, j \in 1..Len(editedSchema.fields) :
          /\ editedSchema.fields[i].type = "date"
          /\ editedSchema.fields[i].options = None
          /\ editedSchema.fields[j].type = "select"
          /\ editedSchema.fields[j].options = Some(<< <<"a">>, <<"1">> >>)

----------------------------------------------------------------------------
\* fields without its k-th element
without(fields, k) ==
    SubSeq(fields, 1, k - 1) \o SubSeq(fields, k + 1, Len(fields))

(* C12: a step of the editor that changes the schema sets its updatedAt to *)
(* the value of the clock and leaves its id and its createdAt unchanged;   *)
(* the fields that remain keep their identifiers and their order: a field  *)
(* is appended, or one field is removed, or at most one field is changed   *)
(* in place, with its identifier kept.                                     *)
C12_EditorFrame ==
    [][schemas' # schemas =>
        LET F == editedSchema.fields
            G == editedSchemaAfter.fields
        IN /\ Len(schemas') = Len(schemas)
           /\ selectedSchemaId' = selectedSchemaId
           /\ editedSchemaAfter.updatedAt = clock
           /\ editedSchemaAfter.id = editedSchema.id
           /\ editedSchemaAfter.createdAt = editedSchema.createdAt
           /\ CASE Len(G) = Len(F) ->
                    /\ \A k \in 1..Len(F) : G[k].id = F[k].id
                    /\ Cardinality({k \in 1..Len(F) : G[k] # F[k]}) <= 1
                 [] Len(G) = Len(F) + 1 -> SubSeq(G, 1, Len(F)) = F
                 [] Len(G) = Len(F) - 1 ->
                    \E k \in 1..Len(F) : G = without(F, k)
                 [] OTHER -> FALSE
      ]_vars

\* a stored schema edited after the clock has advanced: it has a new name
\* and a renamed field next to a field left as it was
C12_Witness ==
    /\ EditorRendered
    /\ editedSchema.createdAt = 0
    /\ editedSchema.updatedAt = 1
    /\ editedSchema.name = "a"
    /\ Len(editedSchema.fields) = 2
    /\ editedSchema.fields[1] = newField(0 - 2, 1)
    /\ editedSchema.fields[2].id = 0 - 3
    /\ editedSchema.fields[2].name = "key"

----------------------------------------------------------------------------
\* the identifiers of the schemas of a collection
SchemaIds(ss) == {ss[i].id : i \in 1..Len(ss)}

(* C13: a step that deletes a schema removes the schemas that have its id  *)
(* and the entries whose schemaId is that id, and leaves the other schemas *)
(* and the other entries as they were, in their order; and every stored    *)
(* entry references a schema that is in the collection.                    *)
C13_CascadingDelete ==
    /\ [](\A j \in 1..Len(entries) : entries[j].schemaId \in SchemaIds(schemas))
    /\ [][Len(schemas') < Len(schemas) =>
            \E id \in SchemaIds(schemas) :
                /\ schemas' = SelectSeq(schemas, LAMBDA sc : sc.id # id)
                /\ entries' = SelectSeq(entries, LAMBDA e : e.schemaId # id)
        ]_vars

\* the first stored schema and its entry have been deleted, the second
\* stored schema and its entry are as they were
C13_Witness ==
    /\ schemas = <<StoredSchema(2)>>
    /\ entries = <<StoredEntry(2)>>

----------------------------------------------------------------------------
\* two fields of the schema the form shows have the same name
DuplicateNames ==
    \E i, j \in 1..Len(formFields) :
        i # j /\ formFields[i].name = formFields[j].name

\* the position of the last field that has the name
lastNamed(name) ==
    CHOOSE i \in 1..Len(formFields) :
        /\ formFields[i].name = name
        /\ \A j \in (i + 1)..Len(formFields) : formFields[j].name # name

\* the fields, each under a name of its own
distinctlyNamed(fields) ==
    [i \in 1..Len(fields) |-> [fields[i] EXCEPT !.name = "name_" \o ToString(i)]]

(* C14: when fields of the schema share a name, a pass reports the errors  *)
(* it reports for the same fields under distinct names, so the shared name *)
(* is no error; the record of a successful submission then has fewer keys  *)
(* than the schema has fields, one for each name, and the value under a    *)
(* name is the value of the last field of that name alone.                 *)
C14_LastFieldWins ==
    [][(DuplicateNames /\ PassStep) =>
        /\ errors' = validate(distinctlyNamed(formFields), values).newErrors
        /\ Submitted =>
              LET data == entries'[1].data IN
              /\ Cardinality(DOMAIN data) < Len(formFields)
              /\ DOMAIN data = {formFields[i].name : i \in 1..Len(formFields)}
              /\ \A name \in DOMAIN data :
                    LET f == formFields[lastNamed(name)] IN
                    data[name] = buildData(<<f>>, values, EmptyMap)[name]
      ]_vars

\* the first field is a required number, the second field has its name,
\* and the stored record holds the text typed into the second field
C14_Witness ==
    /\ FormRendered
    /\ Len(formFields) >= 2
    /\ formFields[1].type = "number"
    /\ formFields[1].required
    /\ formFields[2].name = formFields[1].name
    /\ entries # <<>>
    /\ entries[1].data = [n \in {formFields[1].name} |-> StringValue(<<"a">>)]

----------------------------------------------------------------------------
(* C15: whenever the collection of schemas is not empty, the selected      *)
(* schema id is the id of a schema of the collection; in particular the    *)
(* deletion of the selected schema does not leave the selection on the     *)
(* deleted schema while other schemas remain.                              *)
C15_SelectionValid ==
    schemas # <<>> => selectedSchemaId \in SchemaIds(schemas)

----------------------------------------------------------------------------
(* C17: the schemas of the collection have pairwise distinct ids.          *)
C17_DistinctIds ==
    \A i, j \in 1..Len(schemas) : i # j => schemas[i].id # schemas[j].id

----------------------------------------------------------------------------
\* a step of addField: the schema the editor shows has one field more
FieldAdded ==
    /\ selectedSchema # None
    /\ find(schemas', selectedSchemaId') # None
    /\ Len(editedSchemaAfter.fields) = Len(editedSchema.fields) + 1

(* C16: the field that addField creates has a name that no field already   *)
(* in the schema has.                                                      *)
C16_FreshName ==
    [][FieldAdded =>
        LET F == editedSchema.fields
            G == editedSchemaAfter.fields
        IN \A k \in 1..Len(F) : F[k].name # G[Len(G)].name
      ]_vars

----------------------------------------------------------------------------
(* C18: in the entries table a click on Previous, enabled whenever the     *)
(* page shown is not the first, moves the page shown to the page before    *)
(* it, and a click on Next, when enabled, to the page after it.            *)
C18_PageMoves ==
    [][/\ onPrevious => currentPage' = currentPage - 1
       /\ onNext => currentPage' = currentPage + 1
      ]_vars

====
